---- MODULE Spec2Model ----
(***************************************************************************)
(* A state-machine model of geotranote: the report form (handleSubmit and  *)
(* the pending-infraction list), the filtered dashboard (fetchData and its *)
(* totals), the chart dashboard (serviceTypeData, removalsBySector) and    *)
(* the remote store they talk to.                                          *)
(*                                                                         *)
(* Every await of the source is a point where the model may interleave     *)
(* other events: a handler runs atomically from one await to the next.     *)
(* The remote store is external: each call either succeeds and takes       *)
(* effect, or fails and leaves the store as it was.                        *)
(***************************************************************************)
EXTENDS Integers, Sequences, FiniteSets, TLC

VARIABLES
    \* ---- the remote store
    dbReports,          \* rows of geotranote_reports, in insertion order
    dbInfractions,      \* rows of infractions, in insertion order
    idColumn,           \* what a report row answers for .id (see ReportId)
    \* ---- the form component (Dashboard.tsx 247-757)
    formData,
    formInfractions,    \* the pending list (state "infractions" of the form)
    isSidebarOpen,
    selectedInfraction,
    quantity,
    searchTerm,
    isDropdownOpen,
    formError,
    protocolNumber,
    runs,               \* the executions of handleSubmit, by call number
    started,            \* number of handleSubmit calls so far
    edits,              \* number of edits of the form fields so far
    alerted,            \* protocol numbers shown by alert(), in order
    \* ---- the dashboard component (Dashboard.tsx 27-223, part_000 44-69)
    reports,
    infractions,
    loading,
    error,
    selectedService,
    dateRange,
    fetch,              \* the execution of fetchData in flight, if any
    fetches,            \* number of fetchData calls so far
    inQueries,          \* the .in('report_uid', ...) queries sent, in order
    \* ---- the App component and the session provider (part_001)
    providerSession,    \* the session supabase.auth holds
    session,            \* the state "session" of the mounted App
    route,              \* the location of the router
    mounted,            \* whether the App is mounted
    mounts,             \* number of mounts so far; the last is the live instance
    requested,          \* the location the live instance was mounted at
    getSessionCalls,    \* the getSession() promise of each instance
    subscriptions,      \* the onAuthStateChange listener of each instance
    events,             \* number of provider session changes so far
    navs,               \* number of navigations so far
    lateDeliveries      \* listener calls of instances already torn down

storeVars == <<dbReports, dbInfractions, idColumn>>
sidebarVars == <<isSidebarOpen, selectedInfraction, quantity, searchTerm, isDropdownOpen>>
formVars == <<formData, formInfractions, sidebarVars, formError, protocolNumber,
              runs, started, edits, alerted>>
dashVars == <<reports, infractions, loading, error, selectedService, dateRange,
              fetch, fetches, inQueries>>
appVars == <<providerSession, session, route, mounted, mounts, requested,
             getSessionCalls, subscriptions, events, navs, lateDeliveries>>
vars == <<storeVars, formVars, appVars, dashVars, appVars>>

----------------------------------------------------------------------------
(* Bounds of the model *)

MaxRuns == 2        \* handleSubmit calls in one behaviour
MaxPending == 2     \* entries of the pending list
MaxCount == 1       \* largest number typed into a count input
MaxEdits == 1       \* edits of the five form fields in one behaviour
MaxQuantity == 2    \* largest number typed into the quantity input
MaxFetches == 2     \* fetchData calls in one behaviour
MaxReports == 2     \* report rows of the store a dashboard finds
MaxInfractions == 2 \* infraction rows of the store a dashboard finds
MaxChartReports == 3    \* report rows of the store the chart dashboard finds
MaxMounts == 2      \* mounts of the App in one behaviour
MaxEvents == 2      \* session changes of the provider in one behaviour
MaxNavs == 1        \* navigations in one behaviour

null == "null"
undefined == "undefined"

Range(s) == {s[i] : i \in DOMAIN s}

----------------------------------------------------------------------------
(* The types of the form *)

ServiceNames == {"ordinario", "operacao", "ras"}

\* The sectors the model's user picks among (the source lists thirteen).
Sectors == {"GEOTRAN - 1o Distrito", "GEDAM"}

\* The catalog of infraction types (imported; its entries are opaque strings).
infractionOptions == {"Estacionar em local proibido", "Avancar sinal vermelho"}

DefaultFormData ==
    [service_name |-> "ordinario",
     sector |-> "GEOTRAN - 1o Distrito",
     car_removals |-> 0,
     motorcycle_removals |-> 0,
     total_approaches |-> 0]

----------------------------------------------------------------------------
(* The remote store.  Rows are records; "by" is bookkeeping of the model   *)
(* (the handleSubmit call that inserted the row) and no column.            *)

\* Identifiers are opaque strings the store assigns on insert.
ReportUid(n) == "r" \o ToString(n)
InfractionUid(n) == "i" \o ToString(n)

\* The store's clock: a new row is stamped after every row it already holds.
StoreNow ==
    IF dbReports = <<>> THEN 0
    ELSE 1 + CHOOSE t \in {dbReports[i].created_at : i \in DOMAIN dbReports} :
                 \A i \in DOMAIN dbReports : dbReports[i].created_at <= t

\* .from('infractions').insert(infractionData).select('uid')
StoreInsertInfractions(infractionData, r) ==
    dbInfractions \o
        [k \in 1..Len(infractionData) |->
            [uid |-> InfractionUid(Len(dbInfractions) + k),
             infraction_type |-> infractionData[k].infraction_type,
             quantity |-> infractionData[k].quantity,
             report_uid |-> null,
             by |-> r]]

\* The uids .select('uid') answers for that insert, in insertion order.
InsertedUids(infractionData) ==
    [k \in 1..Len(infractionData) |-> InfractionUid(Len(dbInfractions) + k)]

\* .from('geotranote_reports').insert([{...}]).select('uid').single()
StoreInsertReport(row, r) ==
    Append(dbReports,
        [uid |-> ReportUid(Len(dbReports) + 1),
         service_name |-> row.service_name,
         sector |-> row.sector,
         car_removals |-> row.car_removals,
         motorcycle_removals |-> row.motorcycle_removals,
         total_approaches |-> row.total_approaches,
         protocol_number |-> row.protocol_number,
         created_at |-> StoreNow,
         by |-> r])

\* .from('infractions').upsert(rows): a row whose uid the table holds is
\* overwritten with the columns given, any other row is inserted.
StoreUpsertInfractions(rows, r) ==
    LET held == {dbInfractions[i].uid : i \in DOMAIN dbInfractions}
        given(u) == CHOOSE k \in DOMAIN rows :
                        /\ rows[k].uid = u
                        /\ \A j \in DOMAIN rows : rows[j].uid = u => j <= k
        overwritten ==
            [i \in DOMAIN dbInfractions |->
                IF \E k \in DOMAIN rows : rows[k].uid = dbInfractions[i].uid
                THEN [dbInfractions[i] EXCEPT
                        !.report_uid = rows[given(dbInfractions[i].uid)].report_uid,
                        !.infraction_type = rows[given(dbInfractions[i].uid)].infraction_type,
                        !.quantity = rows[given(dbInfractions[i].uid)].quantity]
                ELSE dbInfractions[i]]
        unheld == SelectSeq(rows, LAMBDA x : x.uid \notin held)
    IN  overwritten \o
        [k \in 1..Len(unheld) |->
            [uid |-> unheld[k].uid,
             infraction_type |-> unheld[k].infraction_type,
             quantity |-> unheld[k].quantity,
             report_uid |-> unheld[k].report_uid,
             by |-> r]]

----------------------------------------------------------------------------
(* handleSubmit (Dashboard.tsx 298-410)                                    *)

ErroSalvarDados == "Erro ao salvar os dados. Por favor, tente novamente."
ErroSalvarFormulario == "Erro ao salvar o formulario."
ErroAtualizarInfracoes == "Erro ao atualizar as infracoes."

\* nanoid(): a random 21-symbol token.  Modelled by its contract, a token no
\* earlier call returned; n is the number of earlier calls.
nanoid(n) == "p" \o ToString(n + 1)

\* A protocol number minted once and reused by every submission.
staleProtocolNumber == nanoid(0)

\* const newProtocolNumber = nanoid();
newProtocolNumber == nanoid(started)

IdleRun ==
    [pc |-> "idle", protocol |-> null, infractions |-> <<>>,
     formData |-> DefaultFormData, insertedInfractions |-> <<>>,
     reportData |-> null, trace |-> <<>>]

\* A run that returned, saved ("ok") or with an error ("failed").
Returned(run, how) == [run EXCEPT !.pc = how]

\* infractions.map(infraction => ({ infraction_type, quantity }))
infractionData(pending) ==
    [k \in 1..Len(pending) |->
        [infraction_type |-> pending[k].infraction_type,
         quantity |-> pending[k].quantity]]

\* The row of both .insert([{...}]) calls on geotranote_reports.
reportRow(run) ==
    [service_name |-> run.formData.service_name,
     sector |-> run.formData.sector,
     car_removals |-> run.formData.car_removals,
     motorcycle_removals |-> run.formData.motorcycle_removals,
     total_approaches |-> run.formData.total_approaches,
     protocol_number |-> run.protocol]

\* The binding rows with the report reference left out.
updatedInfractionsUnbound(run, reportUid) ==
    [index \in 1..Len(run.insertedInfractions) |->
        [uid |-> run.insertedInfractions[index],
         report_uid |-> null,
         infraction_type |-> run.infractions[index].infraction_type,
         quantity |-> run.infractions[index].quantity]]

\* insertedInfractions.map((infraction, index) => ({ uid, report_uid, ... }))
updatedInfractions(run, reportUid) ==
    [index \in 1..Len(run.insertedInfractions) |->
        [uid |-> run.insertedInfractions[index],
         report_uid |-> reportUid,
         infraction_type |-> run.infractions[index].infraction_type,
         quantity |-> run.infractions[index].quantity]]

\* A <form noValidate>: the browser checks no constraint of the inputs.
noValidate == TRUE

\* The constraint validation of <form onSubmit={handleSubmit}>: the submit
\* button fires onSubmit only when no count input is below its min="0".
checkValidity ==
    /\ formData.total_approaches >= 0
    /\ formData.car_removals >= 0
    /\ formData.motorcycle_removals >= 0

\* The handler up to its first await: the two resets, the protocol number,
\* and the first request (infractions if any are pending, else the report).
handleSubmit ==
    /\ checkValidity
    /\ started < MaxRuns
    /\ started' = started + 1
    /\ formError' = null
    /\ protocolNumber' = null
    /\ runs' = [runs EXCEPT ![started + 1] =
            [pc |-> IF Len(formInfractions) > 0 THEN "insertInfractions"
                    ELSE "insertReport",
             protocol |-> newProtocolNumber,
             infractions |-> formInfractions,
             formData |-> formData,
             insertedInfractions |-> <<>>,
             reportData |-> null,
             trace |-> <<"nanoid",
                         IF Len(formInfractions) > 0 THEN "insertInfractions"
                         ELSE "insertReport">>]]
    /\ UNCHANGED <<storeVars, formData, formInfractions, sidebarVars, edits, alerted, dashVars, appVars>>

\* The infraction insert resolves without error; the report insert is sent.
infractionsInserted(r) ==
    /\ runs[r].pc = "insertInfractions"
    /\ dbInfractions' = StoreInsertInfractions(infractionData(runs[r].infractions), r)
    /\ runs' = [runs EXCEPT
            ![r].pc = "insertReport",
            ![r].insertedInfractions = InsertedUids(infractionData(runs[r].infractions)),
            ![r].trace = Append(@, "insertReport")]
    /\ UNCHANGED <<dbReports, idColumn, formData, formInfractions, sidebarVars,
                   formError, protocolNumber, started, edits, alerted, dashVars, appVars>>

\* The infraction insert fails: throw infractionsError, caught at 406.
infractionsInsertFailed(r) ==
    /\ runs[r].pc = "insertInfractions"
    /\ formError' = ErroSalvarDados
    /\ runs' = [runs EXCEPT ![r] = Returned(@, "failed")]
    /\ UNCHANGED <<storeVars, formData, formInfractions, sidebarVars,
                   protocolNumber, started, edits, alerted, dashVars, appVars>>

\* The success path without its setInfractions([]).
savedKeepsPending(r) ==
    /\ protocolNumber' = runs[r].protocol
    /\ alerted' = Append(alerted, runs[r].protocol)
    /\ formData' = DefaultFormData
    /\ formInfractions' = formInfractions
    /\ runs' = [runs EXCEPT ![r] = Returned(@, "ok")]

\* Lines 395-405: the protocol number is shown and the form is reset.
saved(r) ==
    /\ protocolNumber' = runs[r].protocol
    /\ alerted' = Append(alerted, runs[r].protocol)
    /\ formData' = DefaultFormData
    /\ formInfractions' = <<>>
    /\ runs' = [runs EXCEPT ![r] = Returned(@, "ok")]

\* The report insert resolves without error.  With pending infractions the
\* upsert that binds them is sent; without, the submission is saved.
reportInserted(r) ==
    /\ runs[r].pc = "insertReport"
    /\ dbReports' = StoreInsertReport(reportRow(runs[r]), r)
    /\ IF Len(runs[r].infractions) > 0
       THEN /\ runs' = [runs EXCEPT
                    ![r].pc = "upsertInfractions",
                    ![r].reportData = ReportUid(Len(dbReports) + 1),
                    ![r].trace = Append(@, "upsertInfractions")]
            /\ UNCHANGED <<formData, formInfractions, protocolNumber, alerted>>
       ELSE saved(r)
    /\ UNCHANGED <<dbInfractions, idColumn, sidebarVars, formError, started, edits, dashVars, appVars>>

\* A failure path that clears the pending list.
reportInsertFailedClearing(r) ==
    /\ runs[r].pc = "insertReport"
    /\ formError' = ErroSalvarFormulario
    /\ formInfractions' = <<>>
    /\ runs' = [runs EXCEPT ![r] = Returned(@, "failed")]
    /\ UNCHANGED <<storeVars, formData, sidebarVars,
                   protocolNumber, started, edits, alerted, dashVars, appVars>>

\* The report insert fails: setFormError, return (342-347, 387-392).
reportInsertFailed(r) ==
    /\ runs[r].pc = "insertReport"
    /\ formError' = ErroSalvarFormulario
    /\ runs' = [runs EXCEPT ![r] = Returned(@, "failed")]
    /\ UNCHANGED <<storeVars, formData, formInfractions, sidebarVars,
                   protocolNumber, started, edits, alerted, dashVars, appVars>>

\* The upsert resolves without error: the submission is saved.
infractionsUpserted(r) ==
    /\ runs[r].pc = "upsertInfractions"
    /\ dbInfractions' =
            StoreUpsertInfractions(updatedInfractions(runs[r], runs[r].reportData), r)
    /\ saved(r)
    /\ UNCHANGED <<dbReports, idColumn, sidebarVars, formError, started, edits, dashVars, appVars>>

\* A failure of the upsert that takes the report row back.
upsertFailedRollingBack(r) ==
    /\ runs[r].pc = "upsertInfractions"
    /\ formError' = ErroAtualizarInfracoes
    /\ dbReports' = SelectSeq(dbReports, LAMBDA x : x.by # r)
    /\ runs' = [runs EXCEPT ![r] = Returned(@, "failed")]
    /\ UNCHANGED <<dbInfractions, idColumn, formData, formInfractions, sidebarVars,
                   protocolNumber, started, edits, alerted, dashVars, appVars>>

\* The upsert fails: setFormError, return (363-368).
upsertFailed(r) ==
    /\ runs[r].pc = "upsertInfractions"
    /\ formError' = ErroAtualizarInfracoes
    /\ runs' = [runs EXCEPT ![r] = Returned(@, "failed")]
    /\ UNCHANGED <<storeVars, formData, formInfractions, sidebarVars,
                   protocolNumber, started, edits, alerted, dashVars, appVars>>

----------------------------------------------------------------------------
(* The form's inputs (Dashboard.tsx 457-630)                               *)

\* A change of one of the five fields: setFormData({ ...formData, field: v }).
setFormField(field, v) ==
    /\ edits < MaxEdits
    /\ edits' = edits + 1
    /\ formData' = [formData EXCEPT ![field] = v]
    /\ UNCHANGED <<storeVars, formInfractions, sidebarVars, formError,
                   protocolNumber, runs, started, alerted, dashVars, appVars>>

\* Number(e.target.value) of a number input: any number typed, 0 when empty.
CountInputs == (0 - 1)..MaxCount

setServiceName(v) == setFormField("service_name", v)
setSector(v) == setFormField("sector", v)
setTotalApproaches(n) == setFormField("total_approaches", n)
setCarRemovals(n) == setFormField("car_removals", n)
setMotorcycleRemovals(n) == setFormField("motorcycle_removals", n)

----------------------------------------------------------------------------
(* The sidebar of the form (Dashboard.tsx 412-438, 533-540, 651-754)       *)

\* String.includes over the model's search terms: the empty term is part of
\* every option, and no option is part of another.
Includes(option, term) == term = "" \/ term = option

\* infractionOptions.filter(i => i.toLowerCase().includes(searchTerm...))
filteredInfractions == {o \in infractionOptions : Includes(o, searchTerm)}

\* onClick={() => setIsSidebarOpen(true)}
openSidebar ==
    /\ isSidebarOpen' = TRUE
    /\ UNCHANGED <<storeVars, formData, formInfractions, selectedInfraction, quantity,
                   searchTerm, isDropdownOpen, formError, protocolNumber, runs,
                   started, edits, alerted, dashVars, appVars>>

\* The search input is clicked: the dropdown opens.
searchClick ==
    /\ isDropdownOpen' = TRUE
    /\ UNCHANGED <<storeVars, formData, formInfractions, isSidebarOpen,
                   selectedInfraction, quantity, searchTerm, formError,
                   protocolNumber, runs, started, edits, alerted, dashVars, appVars>>

\* The search input is typed into.
searchChange(term) ==
    /\ searchTerm' = term
    /\ isDropdownOpen' = TRUE
    /\ UNCHANGED <<storeVars, formData, formInfractions, isSidebarOpen,
                   selectedInfraction, quantity, formError, protocolNumber, runs,
                   started, edits, alerted, dashVars, appVars>>

\* A mousedown outside the dropdown.
handleClickOutside ==
    /\ isDropdownOpen' = FALSE
    /\ UNCHANGED <<storeVars, formData, formInfractions, isSidebarOpen,
                   selectedInfraction, quantity, searchTerm, formError,
                   protocolNumber, runs, started, edits, alerted, dashVars, appVars>>

\* An entry of the open dropdown is clicked.
handleSelectInfraction(infraction) ==
    /\ isDropdownOpen
    /\ infraction \in filteredInfractions
    /\ selectedInfraction' = infraction
    /\ searchTerm' = infraction
    /\ isDropdownOpen' = FALSE
    /\ UNCHANGED <<storeVars, formData, formInfractions, isSidebarOpen, quantity,
                   formError, protocolNumber, runs, started, edits, alerted, dashVars, appVars>>

\* onChange={(e) => setQuantity(Number(e.target.value))}
setQuantity(n) ==
    /\ quantity' = n
    /\ UNCHANGED <<storeVars, formData, formInfractions, isSidebarOpen,
                   selectedInfraction, searchTerm, isDropdownOpen, formError,
                   protocolNumber, runs, started, edits, alerted, dashVars, appVars>>

\* "Confirmar" without the test of the selection and the quantity.
handleAddInfractionUnchecked ==
    /\ Len(formInfractions) < MaxPending
    /\ formInfractions' = Append(formInfractions,
            [infraction_type |-> selectedInfraction, quantity |-> quantity])
    /\ selectedInfraction' = ""
    /\ searchTerm' = ""
    /\ quantity' = 1
    /\ isSidebarOpen' = FALSE
    /\ UNCHANGED <<storeVars, formData, isDropdownOpen, formError, protocolNumber,
                   runs, started, edits, alerted, dashVars, appVars>>

\* "Confirmar": the entry is appended when a type is selected and the
\* quantity is positive; otherwise the click changes nothing.
handleAddInfraction ==
    /\ Len(formInfractions) < MaxPending
    /\ IF selectedInfraction # "" /\ quantity > 0
       THEN /\ formInfractions' = Append(formInfractions,
                    [infraction_type |-> selectedInfraction, quantity |-> quantity])
            /\ selectedInfraction' = ""
            /\ searchTerm' = ""
            /\ quantity' = 1
            /\ isSidebarOpen' = FALSE
       ELSE UNCHANGED <<formInfractions, selectedInfraction, searchTerm, quantity,
                        isSidebarOpen>>
    /\ UNCHANGED <<storeVars, formData, isDropdownOpen, formError, protocolNumber,
                   runs, started, edits, alerted, dashVars, appVars>>

\* newInfractions.splice(index, 1), index counted from 1 here.
handleRemoveInfraction(index) ==
    /\ index \in DOMAIN formInfractions
    /\ formInfractions' =
            [k \in 1..(Len(formInfractions) - 1) |->
                IF k < index THEN formInfractions[k] ELSE formInfractions[k + 1]]
    /\ UNCHANGED <<storeVars, formData, sidebarVars, formError, protocolNumber,
                   runs, started, edits, alerted, dashVars, appVars>>

closeSidebar ==
    /\ isSidebarOpen' = FALSE
    /\ searchTerm' = ""
    /\ selectedInfraction' = ""
    /\ UNCHANGED <<storeVars, formData, formInfractions, quantity, isDropdownOpen,
                   formError, protocolNumber, runs, started, edits, alerted, dashVars, appVars>>

----------------------------------------------------------------------------
(* The App component: the session gate and the routes (part_001)           *)

Paths == {"/", "/login", "/dashboard", "/form"}
Sessions == {"s1", "s2"}

\* What a <Route> element evaluates to: a page, or a <Navigate to=...>.
Show(page) == [page |-> page, to |-> null]
Navigate(to) == [page |-> null, to |-> to]

\* Routes whose protected elements are not gated by the session.
ElementUngated(path, s) ==
    CASE path = "/" -> Show("Home")
      [] path = "/login" -> IF s = null THEN Show("Login") ELSE Navigate("/")
      [] path = "/dashboard" -> Show("Dashboard")
      [] path = "/form" -> Show("Form")

\* <Routes> of lines 78-89.
Element(path, s) ==
    CASE path = "/" -> Show("Home")
      [] path = "/login" -> IF s = null THEN Show("Login") ELSE Navigate("/")
      [] path = "/dashboard" -> IF s # null THEN Show("Dashboard") ELSE Navigate("/login")
      [] path = "/form" -> IF s # null THEN Show("Form") ELSE Navigate("/login")

\* The location once every <Navigate> rendered on the way has navigated.
RECURSIVE Settle(_, _)
Settle(path, s) ==
    IF Element(path, s).to = null THEN path ELSE Settle(Element(path, s).to, s)

\* The page the mounted App shows.
Page == Element(route, session).page

IdleCall == [pc |-> "idle", session |-> null]
NoSubscription == [live |-> FALSE, queue |-> <<>>]

\* The first render with useState(null), and the effect of lines 18-26:
\* getSession() is called and a listener is registered.
mountApp ==
    /\ ~mounted
    /\ mounts < MaxMounts
    /\ mounted' = TRUE
    /\ mounts' = mounts + 1
    /\ session' = null
    /\ requested' = route
    /\ route' = Settle(route, null)
    /\ getSessionCalls' = [getSessionCalls EXCEPT ![mounts + 1].pc = "called"]
    /\ subscriptions' = [subscriptions EXCEPT ![mounts + 1].live = TRUE]
    /\ UNCHANGED <<storeVars, formVars, dashVars, providerSession, events, navs,
                   lateDeliveries>>

\* The App is torn down.  The effect returns no cleanup: the listener stays
\* registered and the pending promise keeps its callback.
unmountApp ==
    /\ mounted
    /\ mounted' = FALSE
    /\ session' = null
    /\ UNCHANGED <<storeVars, formVars, dashVars, providerSession, route, mounts,
                   requested, getSessionCalls, subscriptions, events, navs,
                   lateDeliveries>>

\* setSession(value) called by a callback of instance i: it sets the state
\* of that instance, and the routes are rendered again.
setSession(i, value) ==
    IF mounted /\ i = mounts
    THEN session' = value /\ route' = Settle(route, value)
    ELSE UNCHANGED <<session, route>>

\* supabase.auth.getSession() reads the session the provider holds.
getSessionRead(i) ==
    /\ getSessionCalls[i].pc = "called"
    /\ getSessionCalls' = [getSessionCalls EXCEPT
            ![i] = [pc |-> "read", session |-> providerSession]]
    /\ UNCHANGED <<storeVars, formVars, dashVars, providerSession, session, route,
                   mounted, mounts, requested, subscriptions, events, navs,
                   lateDeliveries>>

\* .then(({ data: { session } }) => { setSession(session); })
getSessionThen(i) ==
    /\ getSessionCalls[i].pc = "read"
    /\ setSession(i, getSessionCalls[i].session)
    /\ getSessionCalls' = [getSessionCalls EXCEPT ![i].pc = "done"]
    /\ UNCHANGED <<storeVars, formVars, dashVars, providerSession, mounted, mounts,
                   requested, subscriptions, events, navs, lateDeliveries>>

\* The provider's session changes to value: every registered listener is
\* notified, each in the order of the changes.
Notified(value) ==
    [i \in DOMAIN subscriptions |->
        IF subscriptions[i].live
        THEN [subscriptions[i] EXCEPT !.queue = Append(@, value)]
        ELSE subscriptions[i]]

\* A sign-in at the provider (the Login page, or another tab).
signedIn(s) ==
    /\ events < MaxEvents
    /\ providerSession # s
    /\ providerSession' = s
    /\ subscriptions' = Notified(s)
    /\ events' = events + 1
    /\ UNCHANGED <<storeVars, formVars, dashVars, session, route, mounted, mounts,
                   requested, getSessionCalls, navs, lateDeliveries>>

\* "Sign Out", rendered while session is set: await supabase.auth.signOut()
handleSignOut ==
    /\ mounted
    /\ session # null
    /\ events < MaxEvents
    /\ providerSession' = null
    /\ subscriptions' = Notified(null)
    /\ events' = events + 1
    /\ UNCHANGED <<storeVars, formVars, dashVars, session, route, mounted, mounts,
                   requested, getSessionCalls, navs, lateDeliveries>>

\* onAuthStateChange((_event, session) => { setSession(session); }): the
\* listener of instance i is called with its oldest notification.
onAuthStateChange(i) ==
    /\ subscriptions[i].queue # <<>>
    /\ setSession(i, Head(subscriptions[i].queue))
    /\ subscriptions' = [subscriptions EXCEPT ![i].queue = Tail(@)]
    /\ lateDeliveries' =
            IF mounted /\ i = mounts THEN lateDeliveries ELSE lateDeliveries + 1
    /\ UNCHANGED <<storeVars, formVars, dashVars, providerSession, mounted, mounts,
                   requested, getSessionCalls, events, navs>>

\* A <Link> is followed, or the history is walked, to path.
navigate(path) ==
    /\ mounted
    /\ navs < MaxNavs
    /\ path # route
    /\ navs' = navs + 1
    /\ route' = Settle(path, session)
    /\ UNCHANGED <<storeVars, formVars, dashVars, providerSession, session, mounted,
                   mounts, requested, getSessionCalls, subscriptions, events,
                   lateDeliveries>>

\* The App before it is mounted, at the location "/".
AppInit ==
    /\ providerSession = null
    /\ session = null
    /\ route = "/"
    /\ mounted = FALSE
    /\ mounts = 0
    /\ requested = "/"
    /\ getSessionCalls = [i \in 1..MaxMounts |-> IdleCall]
    /\ subscriptions = [i \in 1..MaxMounts |-> NoSubscription]
    /\ events = 0
    /\ navs = 0
    /\ lateDeliveries = 0

----------------------------------------------------------------------------
(* The submission workflow as a system *)

NoDate == 0
IdleFetch ==
    [pc |-> "idle", selectedService |-> "all",
     dateRange |-> [start |-> NoDate, end |-> NoDate], reportUids |-> <<>>]

\* The dashboard before it is mounted.
DashInit ==
    /\ reports = <<>>
    /\ infractions = <<>>
    /\ loading = TRUE
    /\ error = null
    /\ selectedService = "all"
    /\ dateRange = [start |-> NoDate, end |-> NoDate]
    /\ fetch = [n \in 1..MaxFetches |-> IdleFetch]
    /\ fetches = 0
    /\ inQueries = <<>>

\* The form as useState constructs it.
FormInit ==
    /\ formData = DefaultFormData
    /\ formInfractions = <<>>
    /\ isSidebarOpen = FALSE
    /\ selectedInfraction = ""
    /\ quantity = 1
    /\ searchTerm = ""
    /\ isDropdownOpen = FALSE
    /\ formError = null
    /\ protocolNumber = null
    /\ runs = [r \in 1..MaxRuns |-> IdleRun]
    /\ started = 0
    /\ edits = 0
    /\ alerted = <<>>

Schemas == {"uid", "absent"}

\* The form as the user has filled it in before the first submission: any of
\* these is reached from FormInit by the inputs and the sidebar above.
FilledForms ==
    {DefaultFormData,
     [service_name |-> "ras", sector |-> "GEDAM", car_removals |-> 2,
      motorcycle_removals |-> 1, total_approaches |-> 5],
     [service_name |-> "operacao", sector |-> "GEDAM", car_removals |-> 0 - 1,
      motorcycle_removals |-> 0, total_approaches |-> 1]}

PendingEntry(t, q) == [infraction_type |-> t, quantity |-> q]

FilledPending ==
    {<<>>,
     <<PendingEntry("Avancar sinal vermelho", 3)>>,
     <<PendingEntry("Estacionar em local proibido", 2),
       PendingEntry("Avancar sinal vermelho", 1)>>}

InitForm ==
    /\ dbReports = <<>>
    /\ dbInfractions = <<>>
    /\ idColumn = "uid"
    /\ formData \in FilledForms
    /\ formInfractions \in FilledPending
    /\ isSidebarOpen = FALSE
    /\ selectedInfraction = ""
    /\ quantity = 1
    /\ searchTerm = ""
    /\ isDropdownOpen = FALSE
    /\ formError = null
    /\ protocolNumber = null
    /\ runs = [r \in 1..MaxRuns |-> IdleRun]
    /\ started = 0
    /\ edits = 0
    /\ alerted = <<>>
    /\ DashInit
    /\ AppInit

NextForm ==
    \/ handleSubmit
    \/ \E r \in 1..MaxRuns : infractionsInserted(r)
    \/ \E r \in 1..MaxRuns : infractionsInsertFailed(r)
    \/ \E r \in 1..MaxRuns : reportInserted(r)
    \/ \E r \in 1..MaxRuns : reportInsertFailed(r)
    \/ \E r \in 1..MaxRuns : infractionsUpserted(r)
    \/ \E r \in 1..MaxRuns : upsertFailed(r)
    \/ \E v \in ServiceNames : setServiceName(v)
    \/ \E v \in Sectors : setSector(v)
    \/ \E n \in CountInputs : setTotalApproaches(n)
    \/ \E n \in CountInputs : setCarRemovals(n)
    \/ \E n \in CountInputs : setMotorcycleRemovals(n)
    \/ \E index \in 1..MaxPending : handleRemoveInfraction(index)

SpecForm == InitForm /\ [][NextForm]_vars

----------------------------------------------------------------------------
(* The sidebar as a system: the pending list is built from the empty form  *)

\* What is typed into the search input: nothing, an option, or a text that
\* is part of no option.
SearchTerms == infractionOptions \cup {"", "xyz"}

\* Number(e.target.value) of the quantity input: any number, 0 when empty.
QuantityInputs == (0 - 1)..MaxQuantity

InitSidebar ==
    /\ dbReports = <<>>
    /\ dbInfractions = <<>>
    /\ idColumn = "uid"
    /\ FormInit
    /\ DashInit
    /\ AppInit

NextSidebar ==
    \/ openSidebar
    \/ searchClick
    \/ \E term \in SearchTerms : searchChange(term)
    \/ handleClickOutside
    \/ \E infraction \in infractionOptions : handleSelectInfraction(infraction)
    \/ \E n \in QuantityInputs : setQuantity(n)
    \/ handleAddInfraction
    \/ \E index \in 1..MaxPending : handleRemoveInfraction(index)
    \/ closeSidebar

SpecSidebar == InitSidebar /\ [][NextSidebar]_vars

----------------------------------------------------------------------------
(* The App as a system *)

\* The browser is opened at any location, with or without a session kept by
\* the provider from an earlier visit.
InitApp ==
    /\ dbReports = <<>>
    /\ dbInfractions = <<>>
    /\ idColumn = "uid"
    /\ FormInit
    /\ DashInit
    /\ providerSession \in Sessions \cup {null}
    /\ session = null
    /\ route \in Paths
    /\ mounted = FALSE
    /\ mounts = 0
    /\ requested = route
    /\ getSessionCalls = [i \in 1..MaxMounts |-> IdleCall]
    /\ subscriptions = [i \in 1..MaxMounts |-> NoSubscription]
    /\ events = 0
    /\ navs = 0
    /\ lateDeliveries = 0

Instances == 1..MaxMounts

NextApp ==
    \/ mountApp
    \/ unmountApp
    \/ \E i \in Instances : getSessionRead(i)
    \/ \E i \in Instances : getSessionThen(i)
    \/ \E s \in Sessions : signedIn(s)
    \/ handleSignOut
    \/ \E i \in Instances : onAuthStateChange(i)
    \/ \E path \in Paths : navigate(path)

SpecApp == InitApp /\ [][NextApp]_vars

----------------------------------------------------------------------------
(* The filtered dashboard (Dashboard.tsx 27-223)                           *)

\* Time is counted in milliseconds; a date of the date inputs is a day number.
MsPerDay == 86400000
\* The time of day of the suffix 'T23:59:59'.
EndOfDaySuffix == 86399000

\* created_at >= 'YYYY-MM-DD': the date read as the first instant of the day.
DateAsTimestamp(date) == date * MsPerDay
\* dateRange.end + 'T23:59:59'
EndAsTimestamp(date) == date * MsPerDay + EndOfDaySuffix

\* What report.id answers for a row of geotranote_reports.  The form names
\* the store-assigned identifier "uid" (.select('uid')), the dashboard reads
\* "id": either the table answers the same identifier under that name, or it
\* has no such column and the field is undefined.
ReportId(row) == IF idColumn = "uid" THEN row.uid ELSE undefined

\* .select('*'): the row as the dashboard receives it.
SelectAll(row) ==
    [id |-> ReportId(row),
     uid |-> row.uid,
     service_name |-> row.service_name,
     sector |-> row.sector,
     car_removals |-> row.car_removals,
     motorcycle_removals |-> row.motorcycle_removals,
     total_approaches |-> row.total_approaches,
     protocol_number |-> row.protocol_number,
     created_at |-> row.created_at]

\* The filters the query builder has chained (lines 46-56).
MatchesQuery(row, service, range) ==
    /\ service # "all" => row.service_name = service
    /\ range.start # NoDate => row.created_at >= DateAsTimestamp(range.start)
    /\ range.end # NoDate => row.created_at <= EndAsTimestamp(range.end)

\* .order('created_at', { ascending: false }) over rows of distinct stamps.
RECURSIVE OrderDescending(_)
OrderDescending(rows) ==
    IF rows = {} THEN <<>>
    ELSE LET newest == CHOOSE x \in rows : \A y \in rows : y.created_at <= x.created_at
         IN  <<newest>> \o OrderDescending(rows \ {newest})

\* The answer of the report query.
QueryReports(service, range) ==
    OrderDescending({SelectAll(dbReports[i]) : i \in
        {j \in DOMAIN dbReports : MatchesQuery(dbReports[j], service, range)}})

\* reportsData.map(report => report.id).filter(id => id !== undefined)
ReportUidsOf(reportsData) ==
    SelectSeq([k \in DOMAIN reportsData |-> reportsData[k].id],
              LAMBDA id : id # undefined)

\* .select('quantity, report_uid').in('report_uid', reportUids)
QueryInfractions(reportUids) ==
    LET hit == SelectSeq(dbInfractions, LAMBDA x : x.report_uid \in Range(reportUids))
    IN  [k \in DOMAIN hit |->
            [quantity |-> hit[k].quantity, report_uid |-> hit[k].report_uid]]

ErroCarregarDados == "Erro ao carregar dados"
\* err.message of an error the store answers, and the text used when the
\* thrown value is no Error.
LoadErrors == {"store error", ErroCarregarDados}

\* A render that shows the controls while a fetch is loading.
ViewWithControlsWhileLoading ==
    IF error # null THEN "error" ELSE "tiles"

\* A render without the error branch.
ViewIgnoringError ==
    IF loading THEN "loading" ELSE "tiles"

\* What the component renders (lines 100-121).
View ==
    IF loading THEN "loading"
    ELSE IF error # null THEN "error"
    ELSE "tiles"

\* Array.prototype.reduce
RECURSIVE reduce(_, _, _)
reduce(f(_, _), list, acc) ==
    IF list = <<>> THEN acc ELSE reduce(f, Tail(list), f(acc, Head(list)))

totalInfractions == reduce(LAMBDA sum, inf : sum + inf.quantity, infractions, 0)
totalRemovals ==
    reduce(LAMBDA sum, report : sum + report.car_removals + report.motorcycle_removals,
           reports, 0)
totalCarRemovals == reduce(LAMBDA sum, report : sum + report.car_removals, reports, 0)
totalMotorcycleRemovals ==
    reduce(LAMBDA sum, report : sum + report.motorcycle_removals, reports, 0)
totalApproaches == reduce(LAMBDA sum, report : sum + report.total_approaches, reports, 0)

\* fetchData up to its first await: setLoading(true), the query is built from
\* the filters of the render that runs the effect, and sent.
fetchData(service, range) ==
    /\ loading' = TRUE
    /\ fetches' = fetches + 1
    /\ fetch' = [fetch EXCEPT ![fetches + 1] =
            [pc |-> "reports", selectedService |-> service, dateRange |-> range,
             reportUids |-> <<>>]]

\* The effect of the first render.
mountDashboard ==
    /\ fetches = 0
    /\ fetchData(selectedService, dateRange)
    /\ UNCHANGED <<storeVars, formVars, appVars, reports, infractions, error, selectedService,
                   dateRange, inQueries>>

\* The controls are rendered with the tiles only; a change of one re-renders
\* and runs the effect again.
setSelectedService(v) ==
    /\ View = "tiles"
    /\ fetches < MaxFetches
    /\ v # selectedService
    /\ selectedService' = v
    /\ fetchData(v, dateRange)
    /\ UNCHANGED <<storeVars, formVars, appVars, reports, infractions, error, dateRange, inQueries>>

setDateRangeStart(date) ==
    /\ View = "tiles"
    /\ fetches < MaxFetches
    /\ date # dateRange.start
    /\ dateRange' = [dateRange EXCEPT !.start = date]
    /\ fetchData(selectedService, dateRange')
    /\ UNCHANGED <<storeVars, formVars, appVars, reports, infractions, error, selectedService,
                   inQueries>>

setDateRangeEnd(date) ==
    /\ View = "tiles"
    /\ fetches < MaxFetches
    /\ date # dateRange.end
    /\ dateRange' = [dateRange EXCEPT !.end = date]
    /\ fetchData(selectedService, dateRange')
    /\ UNCHANGED <<storeVars, formVars, appVars, reports, infractions, error, selectedService,
                   inQueries>>

\* The infractions kept although no report matched.
staleInfractions == infractions

\* setInfractions([])
noInfractions == <<>>

\* The report query resolves without error (lines 58-81, 85-87).
reportsQueryDone(n) ==
    /\ fetch[n].pc = "reports"
    /\ LET reportsData == QueryReports(fetch[n].selectedService, fetch[n].dateRange)
           reportUids == ReportUidsOf(reportsData)
       IN  /\ reports' = reportsData
           /\ IF Len(reportUids) > 0
              THEN /\ inQueries' = Append(inQueries, reportUids)
                   /\ fetch' = [fetch EXCEPT ![n].pc = "infractions",
                                             ![n].reportUids = reportUids]
                   /\ UNCHANGED <<infractions, loading>>
              ELSE /\ infractions' = noInfractions
                   /\ loading' = FALSE
                   /\ fetch' = [fetch EXCEPT ![n].pc = "done"]
                   /\ UNCHANGED inQueries
    /\ UNCHANGED <<storeVars, formVars, appVars, error, selectedService, dateRange, fetches>>

\* A failed fetch that never leaves the loading view.
failedStillLoading(n, from, message) ==
    /\ fetch[n].pc = from
    /\ error' = message
    /\ fetch' = [fetch EXCEPT ![n].pc = "failed"]
    /\ UNCHANGED <<storeVars, formVars, appVars, reports, infractions, loading, selectedService,
                   dateRange, fetches, inQueries>>

\* A query of the fetch fails: throw, setError in the catch, setLoading(false)
\* in the finally.
fetchFailed(n, from, message) ==
    /\ fetch[n].pc = from
    /\ error' = message
    /\ loading' = FALSE
    /\ fetch' = [fetch EXCEPT ![n].pc = "failed"]
    /\ UNCHANGED <<storeVars, formVars, appVars, reports, infractions, selectedService,
                   dateRange, fetches, inQueries>>

reportsQueryFailed(n, message) == fetchFailed(n, "reports", message)

\* The infraction query resolves without error (lines 70-76, 85-87).
infractionsQueryDone(n) ==
    /\ fetch[n].pc = "infractions"
    /\ infractions' = QueryInfractions(fetch[n].reportUids)
    /\ loading' = FALSE
    /\ fetch' = [fetch EXCEPT ![n].pc = "done"]
    /\ UNCHANGED <<storeVars, formVars, appVars, reports, error, selectedService, dateRange,
                   fetches, inQueries>>

infractionsQueryFailed(n, message) == fetchFailed(n, "infractions", message)

----------------------------------------------------------------------------
(* The dashboard as a system, over the stores it may find *)

\* The content of the rows the dashboard finds.
ReportInputs ==
    {[service_name |-> "ordinario", sector |-> "GEOTRAN - 1o Distrito",
      car_removals |-> 2, motorcycle_removals |-> 1, total_approaches |-> 5],
     [service_name |-> "ras", sector |-> "GEDAM",
      car_removals |-> 0, motorcycle_removals |-> 3, total_approaches |-> 1]}

\* The date typed into the date inputs, and creation stamps around it: the
\* day before, its first instant, its last second, half a second later, and
\* the first instant of the next day.
DateInputs == {2}
CreatedInputs ==
    {MsPerDay + 43200000, 2 * MsPerDay, 2 * MsPerDay + 86399000,
     2 * MsPerDay + 86399500, 3 * MsPerDay}

StoredReport(n, input, created) ==
    [uid |-> ReportUid(n),
     service_name |-> input.service_name,
     sector |-> input.sector,
     car_removals |-> input.car_removals,
     motorcycle_removals |-> input.motorcycle_removals,
     total_approaches |-> input.total_approaches,
     protocol_number |-> nanoid(n),
     created_at |-> created,
     by |-> 0]

\* Tables of up to MaxReports rows, stamped in insertion order.
ReportTables ==
    UNION {
        {[k \in 1..n |-> StoredReport(k, in[k], at[k])] :
            in \in [1..n -> ReportInputs],
            at \in {a \in [1..n -> CreatedInputs] :
                        \A j, k \in 1..n : j < k => a[j] < a[k]}} :
        n \in 0..MaxReports}

\* Tables of up to MaxInfractions rows, the k-th of quantity k, each bound
\* to a report of the table or to none.
InfractionTables(table) ==
    UNION {
        {[k \in 1..n |->
            [uid |-> InfractionUid(k),
             infraction_type |-> "Avancar sinal vermelho",
             quantity |-> k,
             report_uid |-> ref[k],
             by |-> 0]] :
            ref \in [1..n -> {null} \cup {table[i].uid : i \in DOMAIN table}]} :
        n \in 0..MaxInfractions}

InitDash ==
    /\ dbReports \in ReportTables
    /\ dbInfractions \in InfractionTables(dbReports)
    /\ idColumn \in Schemas
    /\ FormInit
    /\ DashInit
    /\ AppInit

Fetches == 1..MaxFetches
ServiceFilters == ServiceNames \cup {"all"}

NextDash ==
    \/ mountDashboard
    \/ \E v \in ServiceFilters : setSelectedService(v)
    \/ \E d \in DateInputs \cup {NoDate} : setDateRangeStart(d)
    \/ \E d \in DateInputs \cup {NoDate} : setDateRangeEnd(d)
    \/ \E n \in Fetches : reportsQueryDone(n)
    \/ \E n \in Fetches, m \in LoadErrors : reportsQueryFailed(n, m)
    \/ \E n \in Fetches : infractionsQueryDone(n)
    \/ \E n \in Fetches, m \in LoadErrors : infractionsQueryFailed(n, m)

SpecDash == InitDash /\ [][NextDash]_vars

----------------------------------------------------------------------------
(* The chart dashboard (part_000): one unfiltered fetch on mount, and the  *)
(* two chart series derived from the report list.                         *)

\* acc.find(item => item.name === name): the place of the first such entry,
\* 0 when there is none.
FindName(acc, name) ==
    IF \E i \in DOMAIN acc : acc[i].name = name
    THEN CHOOSE i \in DOMAIN acc :
            /\ acc[i].name = name
            /\ \A j \in DOMAIN acc : acc[j].name = name => i <= j
    ELSE 0

FindSector(acc, sector) ==
    IF \E i \in DOMAIN acc : acc[i].sector = sector
    THEN CHOOSE i \in DOMAIN acc :
            /\ acc[i].sector = sector
            /\ \A j \in DOMAIN acc : acc[j].sector = sector => i <= j
    ELSE 0

\* A distribution whose new entries are put in front.
serviceTypeDataUnshifting ==
    reduce(LAMBDA acc, report :
                IF FindName(acc, report.service_name) # 0
                THEN [acc EXCEPT ![FindName(acc, report.service_name)].value = @ + 1]
                ELSE <<[name |-> report.service_name, value |-> 1]>> \o acc,
           reports, <<>>)

\* existingService ? existingService.value++ : acc.push({ name, value: 1 })
serviceTypeData ==
    reduce(LAMBDA acc, report :
                IF FindName(acc, report.service_name) # 0
                THEN [acc EXCEPT ![FindName(acc, report.service_name)].value = @ + 1]
                ELSE Append(acc, [name |-> report.service_name, value |-> 1]),
           reports, <<>>)

removalsBySector ==
    reduce(LAMBDA acc, report :
                IF FindSector(acc, report.sector) # 0
                THEN [acc EXCEPT
                        ![FindSector(acc, report.sector)].cars = @ + report.car_removals,
                        ![FindSector(acc, report.sector)].motorcycles =
                            @ + report.motorcycle_removals]
                ELSE Append(acc, [sector |-> report.sector,
                                  cars |-> report.car_removals,
                                  motorcycles |-> report.motorcycle_removals]),
           reports, <<>>)

\* The effect of the first render: setLoading(true) and the query of all
\* reports, newest first.
mountCharts ==
    /\ fetches = 0
    /\ fetchData("all", [start |-> NoDate, end |-> NoDate])
    /\ UNCHANGED <<storeVars, formVars, appVars, reports, infractions, error, selectedService,
                   dateRange, inQueries>>

\* if (reportsData) setReports(reportsData); finally setLoading(false)
chartsQueryDone ==
    /\ fetch[1].pc = "reports"
    /\ reports' = QueryReports("all", [start |-> NoDate, end |-> NoDate])
    /\ loading' = FALSE
    /\ fetch' = [fetch EXCEPT ![1].pc = "done"]
    /\ UNCHANGED <<storeVars, formVars, appVars, infractions, error, selectedService, dateRange,
                   fetches, inQueries>>

chartsQueryFailed(message) == fetchFailed(1, "reports", message)

\* The rows the chart dashboard finds: two service types over two sectors.
ChartInputs ==
    ReportInputs \cup
    {[service_name |-> "ordinario", sector |-> "GEDAM",
      car_removals |-> 1, motorcycle_removals |-> 0, total_approaches |-> 2],
     [service_name |-> "ras", sector |-> "GEOTRAN - 1o Distrito",
      car_removals |-> 1, motorcycle_removals |-> 2, total_approaches |-> 0]}

\* Tables of up to MaxChartReports rows, one inserted a day.
ChartTables ==
    UNION {
        {[k \in 1..n |-> StoredReport(k, in[k], k * MsPerDay)] :
            in \in [1..n -> ChartInputs]} :
        n \in 0..MaxChartReports}

InitCharts ==
    /\ dbReports \in ChartTables
    /\ dbInfractions = <<>>
    /\ idColumn \in Schemas
    /\ FormInit
    /\ DashInit
    /\ AppInit

NextCharts ==
    \/ mountCharts
    \/ chartsQueryDone
    \/ \E m \in LoadErrors : chartsQueryFailed(m)

SpecCharts == InitCharts /\ [][NextCharts]_vars

----------------------------------------------------------------------------
(* Claims about the submission workflow, checked under SpecForm            *)

Runs == 1..MaxRuns
RowsBy(table, r) == SelectSeq(table, LAMBDA x : x.by = r)
FormErrors == {ErroSalvarDados, ErroSalvarFormulario, ErroAtualizarInfracoes}

\* The rows run r wrote are one report with the submitted fields and the
\* run's protocol number, and one infraction per submitted entry, in order,
\* each bound to that report.
PersistedAndBound(r) ==
    LET run == runs[r]
        reps == RowsBy(dbReports, r)
        infs == RowsBy(dbInfractions, r)
    IN  /\ Len(reps) = 1
        /\ reps[1].service_name = run.formData.service_name
        /\ reps[1].sector = run.formData.sector
        /\ reps[1].car_removals = run.formData.car_removals
        /\ reps[1].motorcycle_removals = run.formData.motorcycle_removals
        /\ reps[1].total_approaches = run.formData.total_approaches
        /\ reps[1].protocol_number = run.protocol
        /\ Len(infs) = Len(run.infractions)
        /\ \A k \in 1..Len(infs) :
                /\ infs[k].infraction_type = run.infractions[k].infraction_type
                /\ infs[k].quantity = run.infractions[k].quantity
                /\ infs[k].report_uid = reps[1].uid

\* C1: a handleSubmit that ran with N pending infractions and completed
\* successfully has added exactly one report row (the form's service type,
\* sector, three counts and the generated protocol number) and exactly N
\* infraction rows, one per pending entry with its type and quantity, each
\* referring to the new report; with N = 0 it sent nothing to the
\* infractions collection.
C1_SubmitPersistsReportAndInfractions ==
    \A r \in Runs : runs[r].pc = "ok" =>
        /\ PersistedAndBound(r)
        /\ Len(runs[r].infractions) = 0 =>
                /\ "insertInfractions" \notin Range(runs[r].trace)
                /\ "upsertInfractions" \notin Range(runs[r].trace)

\* Witness of C1: a submission of two pending infractions has completed.
C1_Witness ==
    \E r \in Runs :
        /\ runs[r].pc = "ok"
        /\ Len(runs[r].infractions) = 2
        /\ Len(RowsBy(dbInfractions, r)) = 2

\* C2: every run of handleSubmit ends either with one new report persisted
\* and all pending infractions persisted and bound to it, or failed as a
\* whole with no new report row and no new infraction row.
C2_AllOrNothing ==
    \A r \in Runs : runs[r].pc \in {"ok", "failed"} =>
        \/ PersistedAndBound(r)
        \/ /\ RowsBy(dbReports, r) = <<>>
           /\ RowsBy(dbInfractions, r) = <<>>

\* C3: a handleSubmit whose remote call fails does not touch the form: no
\* step of a run other than its successful completion changes the form data
\* or the pending list; the step on which a call fails sets one of the
\* form's error messages and exposes nothing; and the protocol number of a
\* failed run is never shown.
C3_FailureKeepsForm ==
    /\ [][\A r \in Runs :
            /\ (runs'[r] # runs[r] /\ runs'[r].pc # "ok") =>
                    /\ formData' = formData
                    /\ formInfractions' = formInfractions
            /\ (runs[r].pc # "failed" /\ runs'[r].pc = "failed") =>
                    /\ formError' \in FormErrors
                    /\ protocolNumber' = protocolNumber
                    /\ alerted' = alerted]_vars
    /\ [](\A r \in Runs : runs[r].pc = "failed" =>
            /\ protocolNumber # runs[r].protocol
            /\ runs[r].protocol \notin Range(alerted))

\* Witness of C3: a submission of a filled-in form has failed, and the form
\* still holds what was submitted, with an error and no protocol number.
C3_Witness ==
    \E r \in Runs :
        /\ runs[r].pc = "failed"
        /\ runs[r].formData.service_name = "ras"
        /\ Len(runs[r].infractions) = 2
        /\ formData = runs[r].formData
        /\ formInfractions = runs[r].infractions
        /\ formError \in FormErrors
        /\ protocolNumber = null

\* C4: the successful completion of a handleSubmit shows the token that was
\* written into the report row of that run, empties the pending list and
\* puts the form data back to its defaults; and a protocol number is shown
\* only when a persisted report row carries it.
C4_SuccessShowsPersistedProtocol ==
    /\ [][\A r \in Runs : (runs[r].pc # "ok" /\ runs'[r].pc = "ok") =>
            /\ protocolNumber' # null
            /\ \E i \in DOMAIN dbReports' :
                    /\ dbReports'[i].by = r
                    /\ dbReports'[i].protocol_number = protocolNumber'
            /\ alerted' = Append(alerted, protocolNumber')
            /\ formInfractions' = <<>>
            /\ formData' = [service_name |-> "ordinario",
                            sector |-> "GEOTRAN - 1o Distrito",
                            car_removals |-> 0,
                            motorcycle_removals |-> 0,
                            total_approaches |-> 0]]_vars
    /\ [](\A t \in Range(alerted) \cup ({protocolNumber} \ {null}) :
            \E i \in DOMAIN dbReports : dbReports[i].protocol_number = t)

\* Witness of C4: a filled-in form with pending infractions has been saved
\* and reset.
C4_Witness ==
    \E r \in Runs :
        /\ runs[r].pc = "ok"
        /\ runs[r].formData.service_name = "ras"
        /\ Len(runs[r].infractions) = 2
        /\ protocolNumber = runs[r].protocol
        /\ formInfractions = <<>>
        /\ formData.service_name = "ordinario"

\* C5: in every submission the protocol number exists before any remote
\* call is issued (it is the first event of the run, and every request comes
\* after it), and no two persisted reports carry the same protocol number.
C5_ProtocolFirstAndUnique ==
    /\ \A r \in Runs : runs[r].pc # "idle" =>
            /\ runs[r].protocol # null
            /\ runs[r].trace[1] = "nanoid"
            /\ \A k \in 2..Len(runs[r].trace) : runs[r].trace[k] # "nanoid"
    /\ \A i, j \in DOMAIN dbReports :
            i # j => dbReports[i].protocol_number # dbReports[j].protocol_number

\* Witness of C5: two submissions have each persisted a report.
C5_Witness ==
    /\ Len(dbReports) = 2
    /\ \A r \in Runs : runs[r].pc = "ok"

----------------------------------------------------------------------------
(* Claims about the dashboards, checked under SpecDash and SpecCharts      *)

\* The sum of a sequence of numbers, from its last element down.
RECURSIVE SumOf(_)
SumOf(numbers) ==
    IF Len(numbers) = 0 THEN 0
    ELSE numbers[Len(numbers)] + SumOf(SubSeq(numbers, 1, Len(numbers) - 1))

\* The store's reports the filter of the claim selects: the service type, a
\* creation no earlier than the start date, and a creation on the end date
\* at the latest, whatever the time of that day.
SelectedByFilter(service, range) ==
    {i \in DOMAIN dbReports :
        /\ service = "all" \/ dbReports[i].service_name = service
        /\ range.start = NoDate \/ dbReports[i].created_at >= range.start * MsPerDay
        /\ range.end = NoDate \/ dbReports[i].created_at < (range.end + 1) * MsPerDay}

\* C6: after a successful fetch with service filter f and date range
\* (start, end), the report list is exactly the store's reports with
\* (f = 'all' or service type f), (no start or created >= start) and (no end
\* or created on or before the end date, any time of that day included),
\* newest first.
C6_FetchReturnsFilteredReports ==
    View = "tiles" =>
        /\ {reports[k].uid : k \in DOMAIN reports} =
                {dbReports[i].uid : i \in SelectedByFilter(selectedService, dateRange)}
        /\ Len(reports) = Cardinality(SelectedByFilter(selectedService, dateRange))
        /\ \A j, k \in DOMAIN reports :
                j < k => reports[j].created_at >= reports[k].created_at

\* C7: when the report query of a fetch returns an empty set, the
\* infraction list becomes empty and no 'in' query is sent; when it returns
\* a non-empty set, exactly one such query is sent, over the identifiers of
\* the returned reports.
C7_InQueryIffReportsReturned ==
    [][\A n \in Fetches :
            (fetch[n].pc = "reports" /\ fetch'[n].pc \in {"infractions", "done"}) =>
                IF reports' = <<>>
                THEN infractions' = <<>> /\ inQueries' = inQueries
                ELSE /\ Len(inQueries') = Len(inQueries) + 1
                     /\ Range(inQueries'[Len(inQueries')]) =
                            {reports'[k].uid : k \in DOMAIN reports'}]_vars

\* C8: whenever the tiles are shown, total removals is total car removals
\* plus total motorcycle removals over the report list, and total
\* infractions is the sum of the quantities of exactly those infractions of
\* the view whose report reference is the identifier of a listed report.
C8_TotalsAgree ==
    View = "tiles" =>
        /\ totalRemovals = totalCarRemovals + totalMotorcycleRemovals
        /\ totalCarRemovals = SumOf([k \in DOMAIN reports |-> reports[k].car_removals])
        /\ totalMotorcycleRemovals =
                SumOf([k \in DOMAIN reports |-> reports[k].motorcycle_removals])
        /\ LET owned == SelectSeq(infractions, LAMBDA x :
                            \E k \in DOMAIN reports : reports[k].id = x.report_uid)
           IN  totalInfractions = SumOf([k \in DOMAIN owned |-> owned[k].quantity])

\* Witness of C8: the tiles show two reports, six removals in all, and
\* infractions of theirs.
C8_Witness ==
    /\ View = "tiles"
    /\ Len(reports) = 2
    /\ totalRemovals = 6
    /\ totalInfractions = 3

\* The distinct keys of a sequence, in the order of their first occurrence.
FirstSeen(keys) ==
    LET firsts == {i \in DOMAIN keys : \A j \in 1..(i - 1) : keys[j] # keys[i]}
        nth(n) == CHOOSE i \in firsts : Cardinality({j \in firsts : j <= i}) = n
    IN  [n \in 1..Cardinality(firsts) |-> keys[nth(n)]]

\* C9: the service-type distribution has one entry per distinct service
\* type, valued with the number of reports of that type; the per-sector
\* breakdown has one entry per distinct sector, with the sums of that
\* sector's car and motorcycle removals; the entries of both stand in the
\* order in which their key first occurs in the report list; and they add
\* up to the number of reports and to the overall car and motorcycle totals.
C9_ChartSeriesGroupInFirstSeenOrder ==
    LET of(key) == {k \in DOMAIN reports : reports[k].service_name = key}
        at(key) == SelectSeq(reports, LAMBDA x : x.sector = key)
    IN  /\ [i \in DOMAIN serviceTypeData |-> serviceTypeData[i].name] =
                FirstSeen([k \in DOMAIN reports |-> reports[k].service_name])
        /\ \A i \in DOMAIN serviceTypeData :
                serviceTypeData[i].value = Cardinality(of(serviceTypeData[i].name))
        /\ [i \in DOMAIN removalsBySector |-> removalsBySector[i].sector] =
                FirstSeen([k \in DOMAIN reports |-> reports[k].sector])
        /\ \A i \in DOMAIN removalsBySector :
                LET rows == at(removalsBySector[i].sector)
                IN  /\ removalsBySector[i].cars =
                            SumOf([k \in DOMAIN rows |-> rows[k].car_removals])
                    /\ removalsBySector[i].motorcycles =
                            SumOf([k \in DOMAIN rows |-> rows[k].motorcycle_removals])
        /\ SumOf([i \in DOMAIN serviceTypeData |-> serviceTypeData[i].value]) = Len(reports)
        /\ SumOf([i \in DOMAIN removalsBySector |-> removalsBySector[i].cars]) =
                SumOf([k \in DOMAIN reports |-> reports[k].car_removals])
        /\ SumOf([i \in DOMAIN removalsBySector |-> removalsBySector[i].motorcycles]) =
                SumOf([k \in DOMAIN reports |-> reports[k].motorcycle_removals])

\* Witness of C9: three reports are listed, the first and the last of one
\* service type and the first two of one sector.
C9_Witness ==
    /\ Len(reports) = 3
    /\ reports[1].service_name = reports[3].service_name
    /\ reports[1].service_name # reports[2].service_name
    /\ reports[1].sector = reports[2].sector
    /\ reports[1].sector # reports[3].sector
    /\ Len(serviceTypeData) = 2
    /\ serviceTypeData[1].value = 2
    /\ Len(removalsBySector) = 2

\* C10: a failing report query sets the error, sends no infraction query and
\* leaves both lists as they were; a failing infraction query sets the error
\* and leaves the infraction list as it was; either way the view then shows
\* the error message, and never the tiles while the error stands.
C10_FetchFailureShowsOnlyError ==
    /\ [][\A n \in Fetches :
            /\ (fetch[n].pc = "reports" /\ fetch'[n].pc = "failed") =>
                    /\ error' \in LoadErrors
                    /\ inQueries' = inQueries
                    /\ reports' = reports
                    /\ infractions' = infractions
                    /\ View' = "error"
            /\ (fetch[n].pc = "infractions" /\ fetch'[n].pc = "failed") =>
                    /\ error' \in LoadErrors
                    /\ infractions' = infractions
                    /\ View' = "error"
            /\ fetch[n].pc = "failed" => inQueries' = inQueries]_vars
    /\ [](error # null => View # "tiles")

\* Witness of C10: the infraction query of a fetch has failed after its
\* report query had listed reports; the view shows the error.
C10_Witness ==
    \E n \in Fetches :
        /\ fetch[n].pc = "failed"
        /\ fetch[n].reportUids # <<>>
        /\ reports # <<>>
        /\ View = "error"

----------------------------------------------------------------------------
(* Claims about the session gate, checked under SpecApp                    *)

Protected == {"/dashboard", "/form"}

\* C11: in every reachable state of the mounted App the Form and the
\* Dashboard are shown only while the local session is not null; with a
\* null session the routes /form and /dashboard redirect to /login, and
\* with a session the route /login redirects to the default route "/".
C11_GateFollowsSession ==
    mounted =>
        /\ Page \in {"Home", "Login", "Dashboard", "Form"}
        /\ Page \in {"Dashboard", "Form"} => session # null
        /\ \A path \in Protected : Element(path, null) = Navigate("/login")
        /\ \A s \in Sessions : Element("/login", s) = Navigate("/")
        /\ session = null => route \notin Protected
        /\ session # null => route # "/login"

\* Witness of C11: after a sign-in the form route was navigated to and the
\* form is shown.
C11_Witness ==
    /\ mounted
    /\ events = 1
    /\ navs = 1
    /\ session # null
    /\ Page = "Form"

\* C12: the listener registered on mount is removed on teardown: no
\* notification reaches the listener of an instance that was torn down, and
\* at most one listener is registered while the App is mounted, none after.
C12_UnsubscribedOnTeardown ==
    /\ lateDeliveries = 0
    /\ Cardinality({i \in Instances : subscriptions[i].live}) <=
            (IF mounted THEN 1 ELSE 0)

\* C19: a user whose provider session exists when the App mounts and who
\* opens /form or /dashboard directly is never redirected to /login, and is
\* on the requested route once the getSession result has arrived.
C19_NoRedirectWithExistingSession ==
    (/\ mounted
     /\ mounts = 1
     /\ events = 0
     /\ navs = 0
     /\ providerSession # null
     /\ requested \in Protected) =>
        /\ route # "/login"
        /\ getSessionCalls[1].pc = "done" => route = requested

\* Every getSession result and every notification has been delivered.
Quiescent ==
    \A i \in Instances :
        /\ getSessionCalls[i].pc \in {"idle", "done"}
        /\ subscriptions[i].queue = <<>>

\* C20: once every pending getSession result and every notification has
\* been delivered, the local session of the mounted App is the provider's
\* current session, whatever the order of the deliveries.
C20_SessionConvergesToProvider ==
    (mounted /\ Quiescent) => session = providerSession

----------------------------------------------------------------------------
(* Further claims about the form, checked under SpecForm and SpecSidebar   *)

Unbound(rows) == \A k \in DOMAIN rows : rows[k].report_uid = null
LastCall(r) == runs[r].trace[Len(runs[r].trace)]

\* C13: a failure at any step of a submission stops it without
\* compensation: a failed run sends no further request, and what it wrote
\* stays.  Failed at the infraction insert: no report insert was sent;
\* failed at the report insert: the N inserted infractions stay, unbound,
\* no report row exists and no binding was attempted; failed at the
\* binding: the report row stays and its N infractions stay unbound.
C13_FailureStopsWithoutCompensation ==
    /\ [](\A r \in Runs : runs[r].pc = "failed" =>
            LET reps == RowsBy(dbReports, r)
                infs == RowsBy(dbInfractions, r)
                N == Len(runs[r].infractions)
            IN  /\ LastCall(r) = "insertInfractions" =>
                        /\ "insertReport" \notin Range(runs[r].trace)
                        /\ reps = <<>>
                        /\ infs = <<>>
                /\ LastCall(r) = "insertReport" =>
                        /\ "upsertInfractions" \notin Range(runs[r].trace)
                        /\ reps = <<>>
                        /\ Len(infs) = N
                        /\ Unbound(infs)
                /\ LastCall(r) = "upsertInfractions" =>
                        /\ Len(reps) = 1
                        /\ Len(infs) = N
                        /\ Unbound(infs))
    /\ [][\A r \in Runs : runs[r].pc = "failed" => runs'[r] = runs[r]]_vars

\* Witness of C13: a submission of two infractions has failed at its report
\* insert and its two infraction rows are in the store.
C13_Witness ==
    \E r \in Runs :
        /\ runs[r].pc = "failed"
        /\ LastCall(r) = "insertReport"
        /\ Len(RowsBy(dbInfractions, r)) = 2
        /\ RowsBy(dbReports, r) = <<>>

InFlight(r) == runs[r].pc \in {"insertInfractions", "insertReport", "upsertInfractions"}

\* C15: while one handleSubmit awaits a remote call no second handleSubmit
\* runs: at most one submission of the form is in flight at any time.
C15_NoOverlappingSubmissions ==
    Cardinality({r \in Runs : InFlight(r)}) <= 1

\* C16: every entry of the pending list has a quantity above 0 and a type
\* of the catalog, and in a state with no selected type or with a quantity
\* of 0 or less nothing is added to the pending list.
C16_PendingEntriesValid ==
    /\ [](\A k \in DOMAIN formInfractions :
            /\ formInfractions[k].quantity > 0
            /\ formInfractions[k].infraction_type # ""
            /\ formInfractions[k].infraction_type \in infractionOptions)
    /\ [][(selectedInfraction = "" \/ quantity <= 0) =>
            \/ formInfractions' = formInfractions
            \/ Len(formInfractions') < Len(formInfractions)]_vars

\* Witness of C16: an entry has been added, and a type is selected again
\* with a quantity of 0 typed.
C16_Witness ==
    /\ Len(formInfractions) = 1
    /\ selectedInfraction # ""
    /\ quantity <= 0

\* C17: every report row written by a submission has counts of 0 or more,
\* whatever was typed into the count inputs, and so has every form a
\* submission was started with.
C17_CountsNeverNegative ==
    /\ \A i \in DOMAIN dbReports :
            /\ dbReports[i].car_removals >= 0
            /\ dbReports[i].motorcycle_removals >= 0
            /\ dbReports[i].total_approaches >= 0
    /\ \A r \in Runs : runs[r].pc # "idle" =>
            /\ runs[r].formData.car_removals >= 0
            /\ runs[r].formData.motorcycle_removals >= 0
            /\ runs[r].formData.total_approaches >= 0

\* Witness of C17: a report row was written, a negative count has since
\* been typed, and a further submission is still allowed by the bound.
C17_Witness ==
    /\ dbReports # <<>>
    /\ formData.car_removals < 0
    /\ started < MaxRuns

----------------------------------------------------------------------------
(* Further claims about the filtered dashboard, checked under SpecDash     *)

FetchInFlight(n) == fetch[n].pc \in {"reports", "infractions"}

\* C14, as the code behaves: the filter controls are rendered with the
\* tiles only, never while a fetch is loading, so at most one fetch is in
\* flight at any time, and whenever the tiles are shown the two lists are
\* those of the last fetch, made with the current filter and date range.
C14_FetchesNeverOverlap ==
    /\ Cardinality({n \in Fetches : FetchInFlight(n)}) <= 1
    /\ (\E n \in Fetches : FetchInFlight(n)) => View = "loading"
    /\ View = "tiles" =>
            /\ fetches >= 1
            /\ fetch[fetches].selectedService = selectedService
            /\ fetch[fetches].dateRange = dateRange
            /\ reports = QueryReports(selectedService, dateRange)
            /\ infractions =
                    IF ReportUidsOf(reports) = <<>> THEN <<>>
                    ELSE QueryInfractions(ReportUidsOf(reports))

\* Witness of C14: the second fetch, started by a filter change, is in
\* flight after the first has completed.
C14_Witness ==
    /\ fetches = 2
    /\ fetch[1].pc = "done"
    /\ FetchInFlight(2)
    /\ fetch[2].selectedService # fetch[1].selectedService

\* C14, as stated: a filter change can be made while a fetch is still in
\* flight, starting a second fetch next to it.
C14_ChangeWhileInFlight ==
    ((\E n \in Fetches : FetchInFlight(n)) /\ fetches < MaxFetches) =>
        ENABLED (\E v \in ServiceFilters : setSelectedService(v))

\* C18: once a fetch failure has set the error, no step resets it: the view
\* shows the error from then on and no filter control can be used again.
C18_ErrorIsAbsorbing ==
    /\ [][error # null => (error' = error /\ View' = "error")]_vars
    /\ [](error # null =>
            /\ View = "error"
            /\ ~ENABLED (\E v \in ServiceFilters : setSelectedService(v))
            /\ ~ENABLED (\E date \in DateInputs : setDateRangeStart(date))
            /\ ~ENABLED (\E date \in DateInputs : setDateRangeEnd(date)))

\* Witness of C18: a fetch has failed after reports were listed, and the
\* bound would still allow a further fetch.
C18_Witness ==
    /\ error # null
    /\ reports # <<>>
    /\ fetches < MaxFetches

----------------------------------------------------------------------------
(* Submission and dashboard together: the form is submitted, then the     *)
(* dashboard is opened on the same store.                                  *)

\* The form is rendered, and submitted, only until the dashboard route is
\* opened (part_001 81-88: one route element is rendered at a time).
submitFromForm ==
    /\ fetches = 0
    /\ handleSubmit

\* The dashboard is opened once every submission has returned.
openDashboard ==
    /\ started > 0
    /\ \A r \in 1..MaxRuns : ~InFlight(r)
    /\ mountDashboard

InitRoundTrip ==
    /\ dbReports = <<>>
    /\ dbInfractions = <<>>
    /\ idColumn \in Schemas
    /\ formData \in FilledForms
    /\ formInfractions \in FilledPending
    /\ isSidebarOpen = FALSE
    /\ selectedInfraction = ""
    /\ quantity = 1
    /\ searchTerm = ""
    /\ isDropdownOpen = FALSE
    /\ formError = null
    /\ protocolNumber = null
    /\ runs = [r \in 1..MaxRuns |-> IdleRun]
    /\ started = 0
    /\ edits = 0
    /\ alerted = <<>>
    /\ DashInit
    /\ AppInit

NextRoundTrip ==
    \/ submitFromForm
    \/ \E r \in 1..MaxRuns : infractionsInserted(r)
    \/ \E r \in 1..MaxRuns : infractionsInsertFailed(r)
    \/ \E r \in 1..MaxRuns : reportInserted(r)
    \/ \E r \in 1..MaxRuns : reportInsertFailed(r)
    \/ \E r \in 1..MaxRuns : infractionsUpserted(r)
    \/ \E r \in 1..MaxRuns : upsertFailed(r)
    \/ openDashboard
    \/ \E n \in Fetches : reportsQueryDone(n)
    \/ \E n \in Fetches, m \in LoadErrors : reportsQueryFailed(n, m)
    \/ \E n \in Fetches : infractionsQueryDone(n)
    \/ \E n \in Fetches, m \in LoadErrors : infractionsQueryFailed(n, m)

SpecRoundTrip == InitRoundTrip /\ [][NextRoundTrip]_vars

\* The quantities of the pending entries of the submissions that succeeded.
SubmittedQuantities ==
    SumOf([r \in 1..MaxRuns |->
            IF runs[r].pc = "ok"
            THEN SumOf([k \in DOMAIN runs[r].infractions |->
                            runs[r].infractions[k].quantity])
            ELSE 0])

\* C21: the identifiers the dashboard collects from the reports it lists
\* are the identifiers the submissions wrote into their infractions, so an
\* unfiltered fetch made after the submissions shows every infraction row of
\* each successful submission, and their quantities in total infractions.
C21_DashboardFindsSubmittedInfractions ==
    View = "tiles" =>
        /\ \A r \in Runs : (runs[r].pc = "ok" /\ runs[r].infractions # <<>>) =>
                LET mine == SelectSeq(infractions,
                                LAMBDA x : x.report_uid = runs[r].reportData)
                IN  /\ runs[r].reportData \in Range(ReportUidsOf(reports))
                    /\ [k \in DOMAIN mine |-> mine[k].quantity] =
                            [k \in DOMAIN runs[r].infractions |->
                                runs[r].infractions[k].quantity]
        /\ totalInfractions = SubmittedQuantities

====
